---- MODULE Spec2Model ----
(***************************************************************************)
(* LibraryManager (src/src/LibraryManager.ts): installation, patch update  *)
(* and rollback of H5P libraries on top of an ILibraryStorage.             *)
(*                                                                         *)
(* The storage is an interface of which the repository's implementations   *)
(* are not part of the sources at hand; it is modelled from the Library    *)
(* Store Port of the specification (section 4.2): a collection of metadata *)
(* records plus a file set per (machineName, majorVersion, minorVersion).  *)
(* The port enforces neither I1 nor I2, so the collection is a set of      *)
(* records and addLibrary just adds one.                                   *)
(*                                                                         *)
(* Every await of installFromDirectory is one step of a call, so that the  *)
(* store can be observed between the steps.                                *)
(***************************************************************************)
EXTENDS Integers, Sequences, FiniteSets, TLC

\* ------------------------------------------------------------------ bounds
MaxPatch == 1      \* patchVersion ranges over 0..MaxPatch
MaxCalls == 3      \* installFromDirectory calls made in one behaviour
MaxRacePatch == 2  \* patchVersion of the sources of concurrent calls: 0..MaxRacePatch

Procs == {1, 2}    \* call slots
\* The call slot of a caller that serializes its calls.
Caller == CHOOSE p \in Procs : \A q \in Procs : p <= q

\* ------------------------------------------------------------------- paths
\* A relative path: directory, basename before the last dot, extension.
\* ext = "" is a basename without a dot.
MainJs      == [dir |-> "", base |-> "main",    ext |-> "js"]
StyleCss    == [dir |-> "", base |-> "style",   ext |-> "css"]
License     == [dir |-> "", base |-> "LICENSE", ext |-> ""]
LibraryJson == [dir |-> "", base |-> "library", ext |-> "json"]

Paths == {MainJs, StyleCss, License, LibraryJson}

\* ------------------------------------------------------------- identities
LibName(n, ma, mi) == [machineName |-> n, majorVersion |-> ma, minorVersion |-> mi]

\* The (machineName, majorVersion, minorVersion) lines of the install sources:
\* one whose sources come in every shape, and two beside it whose sources are
\* complete.
MainLine  == LibName("A", 1, 0)
SideLines == {LibName("A", 1, 1), LibName("B", 1, 0)}
Lines     == {MainLine} \cup SideLines

MachineNames == {l.machineName : l \in Lines}

\* ILibraryName of anything that carries the three fields.
NameOf(x) == LibName(x.machineName, x.majorVersion, x.minorVersion)

\* IFullLibraryName of anything that carries the four fields.
FullNameOf(x) ==
    [machineName |-> x.machineName, majorVersion |-> x.majorVersion,
     minorVersion |-> x.minorVersion, patchVersion |-> x.patchVersion]

\* The value of an unset IFullLibraryName (undefined).
Undefined ==
    [machineName |-> "", majorVersion |-> 0 - 1, minorVersion |-> 0 - 1,
     patchVersion |-> 0 - 1]

\* ---------------------------------------------------------------- sources
\* What a source directory holds besides its identity: the manifest's
\* preloadedJs and preloadedCss lists and the files next to library.json.
Shapes ==
    { [title |-> "complete", runnable |-> TRUE,
       preloadedJs |-> <<MainJs>>, preloadedCss |-> <<StyleCss>>,
       files |-> {MainJs, StyleCss, License}],
      [title |-> "bare", runnable |-> FALSE,
       preloadedJs |-> <<>>, preloadedCss |-> <<>>,
       files |-> {StyleCss}],
      [title |-> "incomplete", runnable |-> TRUE,
       preloadedJs |-> <<MainJs>>, preloadedCss |-> <<StyleCss>>,
       files |-> {License}],
      [title |-> "undotted", runnable |-> TRUE,
       preloadedJs |-> <<License>>, preloadedCss |-> <<>>,
       files |-> {License, StyleCss}] }

\* ILibraryMetadata: the content of library.json.
Manifest(l, patch, s) ==
    [machineName |-> l.machineName, majorVersion |-> l.majorVersion,
     minorVersion |-> l.minorVersion, patchVersion |-> patch,
     title |-> s.title, runnable |-> s.runnable,
     preloadedJs |-> s.preloadedJs, preloadedCss |-> s.preloadedCss]

NoManifest ==
    [machineName |-> "", majorVersion |-> 0 - 1, minorVersion |-> 0 - 1,
     patchVersion |-> 0 - 1, title |-> "", runnable |-> FALSE,
     preloadedJs |-> <<>>, preloadedCss |-> <<>>]

\* A directory whose library.json is missing or does not parse.
BrokenDir == [readable |-> FALSE, manifest |-> NoManifest, files |-> {License}]

SourceDir(l, patch, s) ==
    [readable |-> TRUE, manifest |-> Manifest(l, patch, s),
     files |-> s.files \cup {LibraryJson}]

Directories ==
    {SourceDir(MainLine, patch, s) : patch \in 0..MaxPatch, s \in Shapes}
    \cup {SourceDir(l, patch, s) :
             l \in SideLines, patch \in 0..MaxPatch,
             s \in {x \in Shapes : x.title = "complete"}}
    \cup {BrokenDir}

\* The sources of the calls that are not serialized: patches of one line.
RaceDirectories ==
    {SourceDir(MainLine, patch, s) :
        patch \in 0..MaxRacePatch, s \in {x \in Shapes : x.title = "complete"}}

NoDir == [readable |-> FALSE, manifest |-> NoManifest, files |-> {}]

\* ----------------------------------------------------------------- errors
NoError            == [type |-> "none", op |-> "", files |-> <<>>]
ManifestUnreadable == [type |-> "manifest-unreadable", op |-> "readJSON", files |-> <<>>]
StoreFailure(op)   == [type |-> "store-failure", op |-> op, files |-> <<>>]
NotInstalledError  ==
    [type |-> "library-consistency-check-not-installed", op |-> "", files |-> <<>>]
FileMissing(fs)    ==
    [type |-> "library-consistency-check-file-missing", op |-> "", files |-> fs]

\* ----------------------------------------------------------------- results
NoResult == [type |-> "pending", newVersion |-> Undefined, oldVersion |-> Undefined,
             errors |-> {}]
Installed(type, new, old) ==
    [type |-> type, newVersion |-> new, oldVersion |-> old, errors |-> {}]
\* A rejected call: errors is what the rejection carries.
Thrown(es) ==
    [type |-> "error", newVersion |-> Undefined, oldVersion |-> Undefined,
     errors |-> es]

\* ----------------------------------------------------------------- queries
\* What a query of the manager came to: the value returned, or the error the
\* promise was rejected with.
Returned(v) == [outcome |-> "returned", value |-> v]
Rejected(e) == [outcome |-> "rejected", value |-> e]

\* No query has been made.
NoAnswer == [op |-> "", arg |-> <<>>, got |-> Returned(<<>>)]

VARIABLES
    libraries,   \* the store's metadata records
    files,       \* the store's files of each line
    pc,          \* where each call stands
    dir,         \* the directory a call installs from
    oldVersion,  \* the call's oldVersion (installFromDirectory)
    pending,     \* the addFile calls of copyLibraryFiles still in flight
    err,         \* the error caught by the call's catch block
    result,      \* what the call returned or threw
    log,         \* the mutating store operations the call has made, in order
    before,      \* the store as it was when the call began
    calls,       \* the number of calls made
    inflight,    \* the addFile calls in flight of calls that are over
    answer       \* the last query made of the manager, and what it answered

vars == <<libraries, files, pc, dir, oldVersion, pending, err, result, log, before,
          calls, inflight, answer>>

\* ------------------------------------------------------ Library Store Port
\* ILibraryStorage.libraryExists
StoreLibraryExists(libs, library) ==
    \E r \in libs : NameOf(r) = NameOf(library)

\* ILibraryStorage.getLibrary: the metadata stored for the line.
StoreGetLibrary(libs, library) ==
    CHOOSE r \in libs : NameOf(r) = NameOf(library)

\* ILibraryStorage.addLibrary: a new record; nothing is checked.
StoreAddLibrary(libs, metadata) == libs \cup {metadata}

\* ILibraryStorage.updateLibrary: the metadata of the line is overwritten.
StoreUpdateLibrary(libs, metadata) ==
    {r \in libs : NameOf(r) # NameOf(metadata)} \cup {metadata}

\* ILibraryStorage.deleteLibrary: metadata of the line (its files go with it).
StoreDeleteLibrary(libs, library) ==
    {r \in libs : NameOf(r) # NameOf(library)}

\* ILibraryStorage.getInstalledLibraryNames: no machine name means all.
StoreGetInstalledLibraryNames(libs, machineNames) ==
    {r \in libs : machineNames = {} \/ r.machineName \in machineNames}

\* ILibraryStorage.fileExists
StoreFileExists(fs, library, file) == file \in fs[NameOf(library)]

\* ILibraryStorage.clearFiles and the file part of deleteLibrary.
StoreClearFiles(fs, library) == [fs EXCEPT ![NameOf(library)] = {}]

\* ILibraryStorage.addFile
StoreAddFile(fs, library, file) ==
    [fs EXCEPT ![NameOf(library)] = @ \cup {file}]

\* The elements of a sequence.
Range(s) == {s[i] : i \in 1..Len(s)}

\* ------------------------------------------------------ Version Comparator
\* InstalledLibrary.compare / compareVersions: major, then minor, then patch.
Compare(a, b) ==
    IF a.majorVersion # b.majorVersion THEN a.majorVersion - b.majorVersion
    ELSE IF a.minorVersion # b.minorVersion THEN a.minorVersion - b.minorVersion
    ELSE a.patchVersion - b.patchVersion

\* Mutant: the sort with its comparison reversed (lib2.compare(lib1)).
RECURSIVE SortLibs_Descending(_)
SortLibs_Descending(S) ==
    IF S = {} THEN <<>>
    ELSE LET most == CHOOSE x \in S : \A y \in S : Compare(x, y) >= 0
         IN  <<most>> \o SortLibs_Descending(S \ {most})

\* Array.prototype.sort with Compare, of the elements of a set.
RECURSIVE SortLibs(_)
SortLibs(S) ==
    IF S = {} THEN <<>>
    ELSE LET least == CHOOSE x \in S : \A y \in S : Compare(x, y) <= 0
         IN  <<least>> \o SortLibs(S \ {least})

\* ------------------------------------------------- Installed Library Registry
\* The InstalledLibrary built for one name: InstalledLibrary.fromName and the
\* patchVersion, runnable and title of getLibrary.
InstalledLib(info) ==
    [machineName |-> info.machineName, majorVersion |-> info.majorVersion,
     minorVersion |-> info.minorVersion, patchVersion |-> info.patchVersion,
     runnable |-> info.runnable, title |-> info.title]

\* LibraryManager.listInstalledLibraries: machine name -> sorted versions.
ListInstalledLibraries(libs, machineNames) ==
    LET names     == StoreGetInstalledLibraryNames(libs, machineNames)
        libraries_ == SortLibs({InstalledLib(n) : n \in names})
        keys      == {libraries_[i].machineName : i \in 1..Len(libraries_)}
    IN  [k \in keys |->
            LET OfKey(lib) == lib.machineName = k
            IN  SelectSeq(libraries_, OfKey)]

\* isPatchedLibrary with `<=` (orEqual) or `!==` for the `<` of its comparison
\* of lib.patchVersion with library.patchVersion.
IsPatchedLibraryWith(libs, library, orEqual) ==
    LET wrappedLibraryInfos == ListInstalledLibraries(libs, {library.machineName})
    IN  IF library.machineName \notin DOMAIN wrappedLibraryInfos THEN Undefined
        ELSE LET libraryInfos == wrappedLibraryInfos[library.machineName]
                 hits == {i \in 1..Len(libraryInfos) :
                            /\ libraryInfos[i].majorVersion = library.majorVersion
                            /\ libraryInfos[i].minorVersion = library.minorVersion}
             IN  IF hits = {} THEN Undefined
                 ELSE LET lib == libraryInfos[CHOOSE i \in hits : \A j \in hits : i <= j]
                      IN  IF IF orEqual
                                THEN lib.patchVersion <= library.patchVersion
                                ELSE lib.patchVersion # library.patchVersion
                          THEN FullNameOf(lib)
                          ELSE Undefined

\* Mutant: `<=` for `<`, an equal patch counts as a patch.
IsPatchedLibrary_OrEqual(libs, library) ==
    IsPatchedLibraryWith(libs, library, TRUE)

\* Mutant: `!==` for `<`, a lower patch counts as a patch too.
IsPatchedLibrary_AnyOther(libs, library) ==
    IsPatchedLibraryWith(libs, library, FALSE)

\* Mutant: the versions of the machine name are not narrowed to the library's
\* majorVersion and minorVersion, the first listed is compared.
IsPatchedLibrary_AnyLine(libs, library) ==
    LET wrappedLibraryInfos == ListInstalledLibraries(libs, {library.machineName})
    IN  IF library.machineName \notin DOMAIN wrappedLibraryInfos THEN Undefined
        ELSE LET lib == wrappedLibraryInfos[library.machineName][1]
             IN  IF lib.patchVersion < library.patchVersion
                 THEN FullNameOf(lib)
                 ELSE Undefined

\* LibraryManager.isPatchedLibrary: the installed version the library is a
\* patch of, or Undefined.
IsPatchedLibrary(libs, library) ==
    LET wrappedLibraryInfos == ListInstalledLibraries(libs, {library.machineName})
    IN  IF library.machineName \notin DOMAIN wrappedLibraryInfos THEN Undefined
        ELSE LET libraryInfos == wrappedLibraryInfos[library.machineName]
                 hits == {i \in 1..Len(libraryInfos) :
                            /\ libraryInfos[i].majorVersion = library.majorVersion
                            /\ libraryInfos[i].minorVersion = library.minorVersion}
             IN  IF hits = {} THEN Undefined
                 ELSE LET lib == libraryInfos[CHOOSE i \in hits : \A j \in hits : i <= j]
                      IN  IF lib.patchVersion < library.patchVersion
                          THEN FullNameOf(lib)
                          ELSE Undefined

\* Mutant: the patchVersion is compared too.
LibraryExists_SamePatch(libs, library) ==
    \E r \in libs : FullNameOf(r) = FullNameOf(library)

\* Mutant: any installed version of the machine name counts.
LibraryExists_AnyLine(libs, library) ==
    \E r \in libs : r.machineName = library.machineName

\* LibraryManager.libraryExists
LibraryExists(libs, library) == StoreLibraryExists(libs, library)

\* ------------------------------------------------------ Consistency Checker
\* LibraryManager.checkFiles: NoError, or the file-missing error with the
\* missing ones of requiredFiles.
CheckFiles(fs, library, requiredFiles) ==
    LET Missing(file) == ~StoreFileExists(fs, library, file)
        missingFiles  == SelectSeq(requiredFiles, Missing)
    IN  IF Len(missingFiles) > 0 THEN FileMissing(missingFiles) ELSE NoError

\* LibraryManager.checkConsistency: NoError, or the error it throws.
CheckConsistency(libs, fs, library) ==
    IF ~LibraryExists(libs, library) THEN NotInstalledError
    ELSE LET metadata == StoreGetLibrary(libs, library)
             js       == CheckFiles(fs, library, metadata.preloadedJs)
         IN  IF js # NoError THEN js
             ELSE CheckFiles(fs, library, metadata.preloadedCss)

\* ---------------------------------------------------------------- file copy
\* globPromise(`${fromDirectory}/**/*.*`): the files whose basename has a dot
\* (and does not begin with one).
Glob(d) == {f \in d.files : f.ext # "" /\ f.base # ""}

\* Mutant: a glob of the scripts only.
FilesToCopy_OnlyJs(d) == {f \in Glob(d) : f # LibraryJson /\ f.ext = "js"}

\* LibraryManager.copyLibraryFiles: the files handed to addFile.
FilesToCopy(d) == {f \in Glob(d) : f # LibraryJson}

\* -------------------------------------------------------------------- state
Init ==
    /\ libraries = {}
    /\ files = [l \in Lines |-> {}]
    /\ pc = [p \in Procs |-> "idle"]
    /\ dir = [p \in Procs |-> NoDir]
    /\ oldVersion = [p \in Procs |-> Undefined]
    /\ pending = [p \in Procs |-> {}]
    /\ err = [p \in Procs |-> NoError]
    /\ result = [p \in Procs |-> NoResult]
    /\ log = [p \in Procs |-> <<>>]
    /\ before = [p \in Procs |-> [libraries |-> {}, files |-> [l \in Lines |-> {}]]]
    /\ calls = 0
    /\ inflight = {}
    /\ answer = NoAnswer

\* The manifest read by the call: newLibraryMetadata.
Metadata(p) == dir[p].manifest

\* newVersion of installFromDirectory.
NewVersion(p) == FullNameOf(Metadata(p))

\* (machineName, majorVersion, minorVersion) the call is about.
Line(p) == NameOf(Metadata(p))

\* The records of the call's line as the call found them.
Prior_(p) == {r \in before[p].libraries : NameOf(r) = Line(p)}

Logged(p, op) == log' = [log EXCEPT ![p] = Append(@, op)]

\* ------------------------------------------------------ installFromDirectory
\* Mutant: a failure of readJSON is swallowed, the call goes on with an empty
\* manifest.
InstallFromDirectory_ReadSwallowed(p, d) ==
    /\ pc[p] = "idle"
    /\ calls < MaxCalls
    /\ calls' = calls + 1
    /\ dir' = [dir EXCEPT ![p] = d]
    /\ before' = [before EXCEPT ![p] = [libraries |-> libraries, files |-> files]]
    /\ oldVersion' = [oldVersion EXCEPT ![p] = Undefined]
    /\ err' = [err EXCEPT ![p] = NoError]
    /\ log' = [log EXCEPT ![p] = <<>>]
    /\ pc' = [pc EXCEPT ![p] = "libraryExists"]
    /\ result' = [result EXCEPT ![p] = NoResult]
    /\ UNCHANGED <<libraries, files, pending, inflight, answer>>

\* The call begins: fsExtra.readJSON of library.json, which throws when the
\* file is missing or does not parse.
InstallFromDirectory(p, d) ==
    /\ pc[p] = "idle"
    /\ calls < MaxCalls
    /\ calls' = calls + 1
    /\ dir' = [dir EXCEPT ![p] = d]
    /\ before' = [before EXCEPT ![p] = [libraries |-> libraries, files |-> files]]
    /\ oldVersion' = [oldVersion EXCEPT ![p] = Undefined]
    /\ err' = [err EXCEPT ![p] = NoError]
    /\ log' = [log EXCEPT ![p] = <<>>]
    /\ IF d.readable
       THEN /\ pc' = [pc EXCEPT ![p] = "libraryExists"]
            /\ result' = [result EXCEPT ![p] = NoResult]
       ELSE /\ pc' = [pc EXCEPT ![p] = "failed"]
            /\ result' = [result EXCEPT ![p] = Thrown({ManifestUnreadable})]
    /\ UNCHANGED <<libraries, files, pending, inflight, answer>>

\* A caller that serializes its calls: the next begins when the last is over.
SerializedInstall(d) == InstallFromDirectory(Caller, d)

\* if (await this.libraryExists(newLibraryMetadata))
CheckLibraryExists(p) ==
    /\ pc[p] = "libraryExists"
    /\ pc' = [pc EXCEPT ![p] =
                IF LibraryExists(libraries, Metadata(p))
                THEN "isPatchedLibrary" ELSE "installLibrary"]
    /\ UNCHANGED <<libraries, files, dir, oldVersion, pending, err, result, log,
                   before, calls, inflight, answer>>

\* (oldVersion = await this.isPatchedLibrary(newLibraryMetadata)), and the
\* return of { type: 'none' } when there is none.
CheckIsPatchedLibrary(p) ==
    /\ pc[p] = "isPatchedLibrary"
    /\ LET old == IsPatchedLibrary(libraries, Metadata(p))
       IN  IF old # Undefined
           THEN /\ oldVersion' = [oldVersion EXCEPT ![p] = old]
                /\ pc' = [pc EXCEPT ![p] = "updateLibrary"]
                /\ UNCHANGED result
           ELSE /\ pc' = [pc EXCEPT ![p] = "done"]
                /\ result' = [result EXCEPT ![p] = Installed("none", Undefined, Undefined)]
                /\ UNCHANGED oldVersion
    /\ UNCHANGED <<libraries, files, dir, pending, err, log, before, calls, inflight, answer>>

\* ------------------------------------------------------------ installLibrary
\* await this.libraryStorage.addLibrary(libraryMetadata, restricted)
AddLibrary(p) ==
    /\ pc[p] = "installLibrary"
    /\ libraries' = StoreAddLibrary(libraries, Metadata(p))
    /\ Logged(p, "addLibrary")
    /\ pc' = [pc EXCEPT ![p] = "copyLibraryFiles"]
    /\ UNCHANGED <<files, dir, oldVersion, pending, err, result, before, calls, inflight, answer>>

\* ------------------------------------------------------------- updateLibrary
\* await this.libraryStorage.updateLibrary(newLibraryMetadata)
UpdateMetadata(p) ==
    /\ pc[p] = "updateLibrary"
    /\ libraries' = StoreUpdateLibrary(libraries, Metadata(p))
    /\ Logged(p, "updateLibrary")
    /\ pc' = [pc EXCEPT ![p] = "clearFiles"]
    /\ UNCHANGED <<files, dir, oldVersion, pending, err, result, before, calls, inflight, answer>>

\* Mutant: updateLibrary without its clearFiles.
ClearFiles_Skipped(p) ==
    /\ pc[p] = "clearFiles"
    /\ pc' = [pc EXCEPT ![p] = "copyLibraryFiles"]
    /\ UNCHANGED <<libraries, files, dir, oldVersion, pending, err, result, log,
                   before, calls, inflight, answer>>

\* await this.libraryStorage.clearFiles(newLibraryMetadata)
ClearFiles(p) ==
    /\ pc[p] = "clearFiles"
    /\ files' = StoreClearFiles(files, Metadata(p))
    /\ Logged(p, "clearFiles")
    /\ pc' = [pc EXCEPT ![p] = "copyLibraryFiles"]
    /\ UNCHANGED <<libraries, dir, oldVersion, pending, err, result, before, calls, inflight, answer>>

\* ---------------------------------------------------------- copyLibraryFiles
\* The glob, and files.map: every addFile is started; Promise.all awaits them.
CopyLibraryFiles(p) ==
    /\ pc[p] = "copyLibraryFiles"
    /\ pending' = [pending EXCEPT ![p] = FilesToCopy(dir[p])]
    /\ pc' = [pc EXCEPT ![p] = "awaitCopy"]
    /\ UNCHANGED <<libraries, files, dir, oldVersion, err, result, log, before, calls, inflight, answer>>

\* One addFile completes. It is in flight whatever the call does meanwhile.
AddFile(p, f) ==
    /\ f \in pending[p]
    /\ files' = StoreAddFile(files, Metadata(p), f)
    /\ pending' = [pending EXCEPT ![p] = @ \ {f}]
    /\ Logged(p, "addFile")
    /\ UNCHANGED <<libraries, pc, dir, oldVersion, err, result, before, calls, inflight, answer>>

\* Mutant: copyLibraryFiles without its await of Promise.all.
CopyDone_NotAwaited(p) ==
    /\ pc[p] = "awaitCopy"
    /\ pc' = [pc EXCEPT ![p] = "checkConsistency"]
    /\ UNCHANGED <<libraries, files, dir, oldVersion, pending, err, result, log,
                   before, calls, inflight, answer>>

\* Promise.all resolves: every addFile has completed.
CopyDone(p) ==
    /\ pc[p] = "awaitCopy"
    /\ pending[p] = {}
    /\ pc' = [pc EXCEPT ![p] = "checkConsistency"]
    /\ UNCHANGED <<libraries, files, dir, oldVersion, pending, err, result, log,
                   before, calls, inflight, answer>>

\* ---------------------------------------------------------- checkConsistency
\* await this.checkConsistency(...), the end of the try block: the call
\* returns 'new' (installLibrary) or 'patch' (updateLibrary), or the catch
\* block is entered with the error.
RunCheckConsistency(p) ==
    /\ pc[p] = "checkConsistency"
    /\ Logged(p, "checkConsistency")
    /\ LET e == CheckConsistency(libraries, files, Metadata(p))
       IN  IF e = NoError
           THEN /\ pc' = [pc EXCEPT ![p] = "done"]
                /\ result' = [result EXCEPT ![p] =
                      IF oldVersion[p] = Undefined
                      THEN Installed("new", NewVersion(p), Undefined)
                      ELSE Installed("patch", NewVersion(p), oldVersion[p])]
                /\ UNCHANGED err
           ELSE /\ pc' = [pc EXCEPT ![p] = "rollback"]
                /\ err' = [err EXCEPT ![p] = e]
                /\ UNCHANGED result
    /\ UNCHANGED <<libraries, files, dir, oldVersion, pending, before, calls, inflight, answer>>

\* ------------------------------------------------------------- catch (error)
\* Mutant: the catch block rethrows without deleteLibrary.
Rollback_KeepsLibrary(p) ==
    /\ pc[p] = "rollback"
    /\ result' = [result EXCEPT ![p] = Thrown({err[p]})]
    /\ pc' = [pc EXCEPT ![p] = "failed"]
    /\ UNCHANGED <<libraries, files, dir, oldVersion, pending, err, log, before,
                   calls, inflight, answer>>

\* Mutant: the catch block puts back what the store held when the call began.
Rollback_Reverts(p) ==
    /\ pc[p] = "rollback"
    /\ libraries' = StoreDeleteLibrary(libraries, Metadata(p)) \cup Prior_(p)
    /\ files' = [files EXCEPT ![Line(p)] = before[p].files[Line(p)]]
    /\ Logged(p, "deleteLibrary")
    /\ result' = [result EXCEPT ![p] = Thrown({err[p]})]
    /\ pc' = [pc EXCEPT ![p] = "failed"]
    /\ UNCHANGED <<dir, oldVersion, pending, err, before, calls, inflight, answer>>

\* await this.libraryStorage.deleteLibrary(...); throw error
Rollback(p) ==
    /\ pc[p] = "rollback"
    /\ libraries' = StoreDeleteLibrary(libraries, Metadata(p))
    /\ files' = StoreClearFiles(files, Metadata(p))
    /\ Logged(p, "deleteLibrary")
    /\ result' = [result EXCEPT ![p] = Thrown({err[p]})]
    /\ pc' = [pc EXCEPT ![p] = "failed"]
    /\ UNCHANGED <<dir, oldVersion, pending, err, before, calls, inflight, answer>>

\* The caller has the outcome; the call slot is free again. The addFile calls
\* the call left behind stay in flight.
Return(p) ==
    /\ pc[p] \in {"done", "failed"}
    /\ pc' = [pc EXCEPT ![p] = "idle"]
    /\ dir' = [dir EXCEPT ![p] = NoDir]
    /\ oldVersion' = [oldVersion EXCEPT ![p] = Undefined]
    /\ err' = [err EXCEPT ![p] = NoError]
    /\ result' = [result EXCEPT ![p] = NoResult]
    /\ log' = [log EXCEPT ![p] = <<>>]
    /\ before' = [before EXCEPT ![p] =
                     [libraries |-> {}, files |-> [l \in Lines |-> {}]]]
    /\ inflight' = inflight \cup {[library |-> Line(p), file |-> f] : f \in pending[p]}
    /\ pending' = [pending EXCEPT ![p] = {}]
    /\ UNCHANGED <<libraries, files, calls, answer>>

\* One step of a call that has begun.
Step(p) ==
    \/ CheckLibraryExists(p)
    \/ CheckIsPatchedLibrary(p)
    \/ AddLibrary(p)
    \/ UpdateMetadata(p)
    \/ ClearFiles(p)
    \/ CopyLibraryFiles(p)
    \/ \E f \in Paths : AddFile(p, f)
    \/ CopyDone(p)
    \/ RunCheckConsistency(p)
    \/ Rollback(p)
    \/ Return(p)

\* Serialized calls on a store whose operations do not fail.
Next ==
    \/ \E d \in Directories : SerializedInstall(d)
    \/ \E p \in Procs : Step(p)

Spec == Init /\ [][Next]_vars

\* ------------------------------------------------------------ store failures
\* A store operation that rejects has changed nothing in the store.

\* libraryExists or the listing of isPatchedLibrary rejects: neither is inside
\* a try block, the rejection is the call's.
QueryFails(p) ==
    /\ pc[p] \in {"libraryExists", "isPatchedLibrary"}
    /\ result' = [result EXCEPT ![p] = Thrown({StoreFailure(pc[p])})]
    /\ pc' = [pc EXCEPT ![p] = "failed"]
    /\ UNCHANGED <<libraries, files, dir, oldVersion, pending, err, log, before, calls, inflight, answer>>

\* Mutant: addLibrary awaited inside installLibrary's try block.
AddLibraryFails_Guarded(p) ==
    /\ pc[p] = "installLibrary"
    /\ Logged(p, "addLibrary")
    /\ err' = [err EXCEPT ![p] = StoreFailure("addLibrary")]
    /\ pc' = [pc EXCEPT ![p] = "rollback"]
    /\ UNCHANGED <<libraries, files, dir, oldVersion, pending, result, before, calls,
                   inflight, answer>>

\* addLibrary rejects: it is awaited before installLibrary's try block.
AddLibraryFails(p) ==
    /\ pc[p] = "installLibrary"
    /\ Logged(p, "addLibrary")
    /\ result' = [result EXCEPT ![p] = Thrown({StoreFailure("addLibrary")})]
    /\ pc' = [pc EXCEPT ![p] = "failed"]
    /\ UNCHANGED <<libraries, files, dir, oldVersion, pending, err, before, calls, inflight, answer>>

\* Mutant: the store's updateLibrary and clearFiles awaited before the try
\* block.
UpdateFails_Unguarded(p) ==
    /\ pc[p] \in {"updateLibrary", "clearFiles"}
    /\ Logged(p, pc[p])
    /\ result' = [result EXCEPT ![p] = Thrown({StoreFailure(pc[p])})]
    /\ pc' = [pc EXCEPT ![p] = "failed"]
    /\ UNCHANGED <<libraries, files, dir, oldVersion, pending, err, before, calls,
                   inflight, answer>>

\* updateLibrary or clearFiles of the store rejects inside updateLibrary's try
\* block.
UpdateFails(p) ==
    /\ pc[p] \in {"updateLibrary", "clearFiles"}
    /\ Logged(p, pc[p])
    /\ err' = [err EXCEPT ![p] = StoreFailure(pc[p])]
    /\ pc' = [pc EXCEPT ![p] = "rollback"]
    /\ UNCHANGED <<libraries, files, dir, oldVersion, pending, result, before, calls, inflight, answer>>

\* One addFile rejects. The first rejection rejects Promise.all, and the catch
\* block is entered while the other addFile calls are still in flight.
AddFileFails(p, f) ==
    /\ f \in pending[p]
    /\ pending' = [pending EXCEPT ![p] = @ \ {f}]
    /\ Logged(p, "addFile")
    /\ IF pc[p] = "awaitCopy"
       THEN /\ pc' = [pc EXCEPT ![p] = "rollback"]
            /\ err' = [err EXCEPT ![p] = StoreFailure("addFile")]
       ELSE UNCHANGED <<pc, err>>
    /\ UNCHANGED <<libraries, files, dir, oldVersion, result, before, calls, inflight, answer>>

\* A store read of checkConsistency (libraryExists, getLibrary, fileExists)
\* rejects.
CheckConsistencyFails(p) ==
    /\ pc[p] = "checkConsistency"
    /\ Logged(p, "checkConsistency")
    /\ err' = [err EXCEPT ![p] = StoreFailure("checkConsistency")]
    /\ pc' = [pc EXCEPT ![p] = "rollback"]
    /\ UNCHANGED <<libraries, files, dir, oldVersion, pending, result, before, calls, inflight, answer>>

\* deleteLibrary rejects inside the catch block: its rejection leaves the
\* block, `throw error` is not reached.
RollbackFails(p) ==
    /\ pc[p] = "rollback"
    /\ Logged(p, "deleteLibrary")
    /\ result' = [result EXCEPT ![p] = Thrown({StoreFailure("deleteLibrary")})]
    /\ pc' = [pc EXCEPT ![p] = "failed"]
    /\ UNCHANGED <<libraries, files, dir, oldVersion, pending, err, before, calls, inflight, answer>>

\* An addFile left behind by a call that is over completes, or rejects
\* unobserved.
LateAddFile(o) ==
    /\ o \in inflight
    /\ files' = StoreAddFile(files, o.library, o.file)
    /\ inflight' = inflight \ {o}
    /\ UNCHANGED <<libraries, pc, dir, oldVersion, pending, err, result, log, before,
                   calls, answer>>

LateAddFileFails(o) ==
    /\ o \in inflight
    /\ inflight' = inflight \ {o}
    /\ UNCHANGED <<libraries, files, pc, dir, oldVersion, pending, err, result, log,
                   before, calls, answer>>

Fault(p) ==
    \/ QueryFails(p)
    \/ AddLibraryFails(p)
    \/ UpdateFails(p)
    \/ \E f \in Paths : AddFileFails(p, f)
    \/ CheckConsistencyFails(p)

\* Serialized calls on a store whose operations may fail, deleteLibrary
\* excepted.
NextFault ==
    \/ Next
    \/ \E p \in Procs : Fault(p)
    \/ \E l \in Lines, f \in Paths :
          \/ LateAddFile([library |-> l, file |-> f])
          \/ LateAddFileFails([library |-> l, file |-> f])

SpecFault == Init /\ [][NextFault]_vars

\* Serialized calls on a store whose every operation may fail.
NextDeleteFault == NextFault \/ \E p \in Procs : RollbackFails(p)

SpecDeleteFault == Init /\ [][NextDeleteFault]_vars

\* ---------------------------------------------------------- concurrent calls
\* A caller that does not await a call before it makes the next.
ConcurrentInstall(p, d) == InstallFromDirectory(p, d)

\* Calls whose steps interleave, on a store whose operations do not fail.
NextConcurrent ==
    \E p \in Procs :
        \/ \E d \in RaceDirectories : ConcurrentInstall(p, d)
        \/ Step(p)

SpecConcurrent == Init /\ [][NextConcurrent]_vars

\* ------------------------------------------------------- registry queries
\* Mutant: `<=` for `<`, the highest installed version itself counts as an
\* upgrade.
LibraryHasUpgrade_OrEqual(libs, library) ==
    LET wrappedLibraryInfos == ListInstalledLibraries(libs, {library.machineName})
    IN  IF library.machineName \notin DOMAIN wrappedLibraryInfos THEN FALSE
        ELSE LET allInstalledLibsOfMachineName ==
                     SortLibs(Range(wrappedLibraryInfos[library.machineName]))
                 highestLocalLibVersion ==
                     allInstalledLibsOfMachineName[Len(allInstalledLibsOfMachineName)]
             IN  Compare(highestLocalLibVersion, library) <= 0

\* Mutant: the first of the sorted versions, the lowest, for the last.
LibraryHasUpgrade_Lowest(libs, library) ==
    LET wrappedLibraryInfos == ListInstalledLibraries(libs, {library.machineName})
    IN  IF library.machineName \notin DOMAIN wrappedLibraryInfos THEN FALSE
        ELSE LET allInstalledLibsOfMachineName ==
                     SortLibs(Range(wrappedLibraryInfos[library.machineName]))
                 highestLocalLibVersion == allInstalledLibsOfMachineName[1]
             IN  Compare(highestLocalLibVersion, library) < 0

\* LibraryManager.libraryHasUpgrade
LibraryHasUpgrade(libs, library) ==
    LET wrappedLibraryInfos == ListInstalledLibraries(libs, {library.machineName})
    IN  IF library.machineName \notin DOMAIN wrappedLibraryInfos THEN FALSE
        ELSE LET allInstalledLibsOfMachineName ==
                     SortLibs(Range(wrappedLibraryInfos[library.machineName]))
                 highestLocalLibVersion ==
                     allInstalledLibsOfMachineName[Len(allInstalledLibsOfMachineName)]
             IN  Compare(highestLocalLibVersion, library) < 0

\* The IFullLibraryName values the queries are made with.
Candidates ==
    {[machineName |-> l.machineName, majorVersion |-> l.majorVersion,
      minorVersion |-> l.minorVersion, patchVersion |-> patch] :
        l \in Lines, patch \in 0..MaxPatch}

\* A caller awaits libraryHasUpgrade(library).
AskLibraryHasUpgrade(library) ==
    /\ answer = NoAnswer
    /\ answer' = [op |-> "libraryHasUpgrade", arg |-> library,
                  got |-> Returned(LibraryHasUpgrade(libraries, library))]
    /\ UNCHANGED <<libraries, files, pc, dir, oldVersion, pending, err, result, log,
                   before, calls, inflight>>

\* A caller awaits isPatchedLibrary(library).
AskIsPatchedLibrary(library) ==
    /\ answer = NoAnswer
    /\ answer' = [op |-> "isPatchedLibrary", arg |-> library,
                  got |-> Returned(IsPatchedLibrary(libraries, library))]
    /\ UNCHANGED <<libraries, files, pc, dir, oldVersion, pending, err, result, log,
                   before, calls, inflight>>

\* A caller awaits listInstalledLibraries(machineNames).
AskListInstalledLibraries(machineNames) ==
    /\ answer = NoAnswer
    /\ answer' = [op |-> "listInstalledLibraries", arg |-> machineNames,
                  got |-> Returned(ListInstalledLibraries(libraries, machineNames))]
    /\ UNCHANGED <<libraries, files, pc, dir, oldVersion, pending, err, result, log,
                   before, calls, inflight>>

\* How a store's getLibrary fails for a library that is not installed: its
\* promise is rejected (an async method), or it throws before it returns one.
StoreThrows == {"rejects", "throws"}

\* LibraryManager.getLibrary: `return this.libraryStorage.getLibrary(library)`
\* inside try, without await: the catch block sees what the store throws
\* while it is called, not the rejection of the promise it returns.
GetLibrary(libs, library, failure) ==
    IF StoreLibraryExists(libs, library)
    THEN Returned(StoreGetLibrary(libs, library))
    ELSE IF failure = "throws" THEN Returned(Undefined)
    ELSE Rejected(StoreFailure("getLibrary"))

\* A caller awaits getLibrary(library).
AskGetLibrary(library, failure) ==
    /\ answer = NoAnswer
    /\ answer' = [op |-> "getLibrary",
                  arg |-> [library |-> NameOf(library), failure |-> failure],
                  got |-> GetLibrary(libraries, library, failure)]
    /\ UNCHANGED <<libraries, files, pc, dir, oldVersion, pending, err, result, log,
                   before, calls, inflight>>

\* Serialized calls on a store whose operations do not fail, and one query of
\* the registry made at some step of them: the behaviour ends with the query,
\* the store is as the query found it.
NextQuery ==
    \/ answer = NoAnswer /\ Next
    \/ \E library \in Candidates :
          \/ AskLibraryHasUpgrade(library)
          \/ AskIsPatchedLibrary(library)
    \/ \E library \in Lines, failure \in StoreThrows :
          AskGetLibrary(library, failure)
    \/ \E machineNames \in SUBSET MachineNames :
          AskListInstalledLibraries(machineNames)

SpecQuery == Init /\ [][NextQuery]_vars

\* ---------------------------------------------------------- content queries
\* The text of a file, character by character.
JsonTexts ==
    { <<"{", "}">>, <<"[", "]">>, <<"[", "{", "}", "]">>,
      <<"{">>, <<"[", "]", "]">>, <<>> }

\* What the store's getFileStream comes to: a rejection (the file is not
\* there), or a stream of the file's text.
NoStream == [found |-> FALSE, text |-> <<>>]
Streams  == {NoStream} \cup {[found |-> TRUE, text |-> x] : x \in JsonTexts}

\* The values JSON.parse yields, and the null of getLanguage.
JsonNull       == [kind |-> "null", items |-> <<>>]
JsonObject     == [kind |-> "object", items |-> <<>>]
JsonArray(vs)  == [kind |-> "array", items |-> vs]

\* The SyntaxError thrown by JSON.parse.
SyntaxError == [type |-> "SyntaxError", op |-> "JSON.parse", files |-> <<>>]

\* JSON.parse from position i: an empty object, or an array of at most one
\* value; next is the position after the value.
RECURSIVE ParseValue(_, _)
ParseValue(text, i) ==
    LET Fail == [ok |-> FALSE, value |-> JsonNull, next |-> i]
    IN  IF i + 1 > Len(text) THEN Fail
        ELSE IF text[i] = "{"
        THEN IF text[i + 1] = "}"
             THEN [ok |-> TRUE, value |-> JsonObject, next |-> i + 2]
             ELSE Fail
        ELSE IF text[i] = "["
        THEN IF text[i + 1] = "]"
             THEN [ok |-> TRUE, value |-> JsonArray(<<>>), next |-> i + 2]
             ELSE LET item == ParseValue(text, i + 1)
                  IN  IF /\ item.ok /\ item.next <= Len(text)
                         /\ text[item.next] = "]"
                      THEN [ok |-> TRUE, value |-> JsonArray(<<item.value>>),
                            next |-> item.next + 1]
                      ELSE Fail
        ELSE Fail

\* JSON.parse(jsonString): the value, or the SyntaxError thrown.
JsonParse(text) ==
    LET parsed == ParseValue(text, 1)
    IN  IF parsed.ok /\ parsed.next = Len(text) + 1
        THEN Returned(parsed.value)
        ELSE Rejected(SyntaxError)

\* LibraryManager.getJsonFile
GetJsonFile(stream) ==
    IF ~stream.found THEN Rejected(StoreFailure("getFileStream"))
    ELSE JsonParse(stream.text)

\* LibraryManager.getLanguage: whatever getJsonFile throws is caught.
GetLanguage(stream) ==
    IF GetJsonFile(stream).outcome = "rejected" THEN Returned(JsonNull)
    ELSE GetJsonFile(stream)

\* LibraryManager.getSemantics
GetSemantics(stream) == GetJsonFile(stream)

Languages == {"en", "de", "fr"}

\* What the store's getLanguages comes to: a rejection, or a list of language
\* codes.
NoListing == [failed |-> TRUE, codes |-> <<>>]
Listings ==
    {NoListing}
    \cup {[failed |-> FALSE, codes |-> s] :
            s \in {x \in UNION {[1..n -> Languages] : n \in 0..Cardinality(Languages)} :
                      \A i, j \in DOMAIN x : x[i] = x[j] => i = j}}

\* LibraryManager.listLanguages
ListLanguages(listing) ==
    IF listing.failed THEN Returned(<<>>)
    ELSE IF "en" \notin Range(listing.codes)
    THEN Returned(Append(listing.codes, "en"))
    ELSE Returned(listing.codes)

\* A caller awaits getLanguage(library, language).
AskGetLanguage(library, language, stream) ==
    /\ answer = NoAnswer
    /\ answer' = [op |-> "getLanguage",
                  arg |-> [library |-> library, language |-> language, store |-> stream],
                  got |-> GetLanguage(stream)]
    /\ UNCHANGED <<libraries, files, pc, dir, oldVersion, pending, err, result, log,
                   before, calls, inflight>>

\* A caller awaits getSemantics(library).
AskGetSemantics(library, stream) ==
    /\ answer = NoAnswer
    /\ answer' = [op |-> "getSemantics",
                  arg |-> [library |-> library, language |-> "", store |-> stream],
                  got |-> GetSemantics(stream)]
    /\ UNCHANGED <<libraries, files, pc, dir, oldVersion, pending, err, result, log,
                   before, calls, inflight>>

\* A caller awaits listLanguages(library).
AskListLanguages(library, listing) ==
    /\ answer = NoAnswer
    /\ answer' = [op |-> "listLanguages",
                  arg |-> [library |-> library, language |-> "", store |-> listing],
                  got |-> ListLanguages(listing)]
    /\ UNCHANGED <<libraries, files, pc, dir, oldVersion, pending, err, result, log,
                   before, calls, inflight>>

\* One query of the content of a library, for each thing the store may do.
NextContent ==
    \E library \in Lines :
        \/ \E language \in Languages, stream \in Streams :
              AskGetLanguage(library, language, stream)
        \/ \E stream \in Streams : AskGetSemantics(library, stream)
        \/ \E listing \in Listings : AskListLanguages(library, listing)

SpecContent == Init /\ [][NextContent]_vars

\* ------------------------------------------------------------ retried calls
\* The caller's await of installFromDirectory rejects: the caller has the
\* failure of the call, and goes on to make further calls.
InstallRejected(p) ==
    /\ pc[p] = "failed"
    /\ answer = NoAnswer
    /\ answer' = [op |-> "installFromDirectory",
                  arg |-> [call |-> calls, library |-> Line(p),
                           oldVersion |-> oldVersion[p], log |-> log[p]],
                  got |-> Rejected(result[p].errors)]
    /\ UNCHANGED <<libraries, files, pc, dir, oldVersion, pending, err, result, log,
                   before, calls, inflight>>

\* Serialized calls on a store whose updateLibrary and clearFiles may fail,
\* by a caller that keeps the failure of one of its calls.
NextRetry ==
    \/ Next
    \/ \E p \in Procs : UpdateFails(p)
    \/ \E p \in Procs : InstallRejected(p)

SpecRetry == Init /\ [][NextRetry]_vars

\* ================================================================== claims
\* The call is over: it has returned (done) or thrown (failed).
Over(p) == pc[p] \in {"done", "failed"}

\* The files the manifest declares under preloadedJs and preloadedCss.
Declared(m) == Range(m.preloadedJs) \cup Range(m.preloadedCss)

\* The call's line was installed when the call began, and the records it had.
Existed(p) == LibraryExists(before[p].libraries, Metadata(p))
Prior(p)   == {r \in before[p].libraries : NameOf(r) = Line(p)}

\* The path the call took, by the first mutating store operation it made.
PathTaken(p) ==
    IF log[p] = <<>> THEN "none"
    ELSE IF log[p][1] = "addLibrary" THEN "new"
    ELSE IF log[p][1] = "updateLibrary" THEN "patch"
    ELSE "other"

\* The file-missing errors among what the call threw.
FileMissingThrown(p) ==
    {e \in result[p].errors : e.type = "library-consistency-check-file-missing"}

\* ---------------------------------------------------------------------- C1
\* C1: a fresh install (the line was not installed) from a source that lacks
\* a file its manifest lists under preloadedJs throws the file-missing error
\* whose list holds each such file, and when it has thrown libraryExists is
\* false for the line.
C1_MissingJs(p) == Range(Metadata(p).preloadedJs) \ dir[p].files

C1_FileMissingNoResidue ==
    \A p \in Procs :
        (Over(p) /\ dir[p].readable /\ ~Existed(p) /\ C1_MissingJs(p) # {})
        => /\ result[p].type = "error"
           /\ \E e \in FileMissingThrown(p) : C1_MissingJs(p) \subseteq Range(e.files)
           /\ ~LibraryExists(libraries, Metadata(p))

C1_Witness ==
    \E p \in Procs :
        /\ pc[p] = "failed" /\ dir[p].readable /\ ~Existed(p)
        /\ MainJs \in C1_MissingJs(p)
        /\ "addLibrary" \in Range(log[p])
        /\ \E e \in FileMissingThrown(p) : MainJs \in Range(e.files)

\* ---------------------------------------------------------------------- C2
\* C2: a call with a readable manifest takes the fresh-install path when the
\* store had no record of the manifest's line, the patch-update path when it
\* had one with a lower patchVersion, and neither (type 'none') when it had
\* one with a patchVersion greater or equal; a call that returns, returns the
\* type of its path.
C2_Expected(p) ==
    IF ~Existed(p) THEN "new"
    ELSE IF \E r \in Prior(p) : r.patchVersion < Metadata(p).patchVersion THEN "patch"
    ELSE "none"

C2_ThreePaths ==
    \A p \in Procs :
        (Over(p) /\ dir[p].readable)
        => /\ PathTaken(p) = C2_Expected(p)
           /\ pc[p] = "done" => result[p].type = C2_Expected(p)
           /\ C2_Expected(p) = "none" => pc[p] = "done"

C2_Witness ==
    /\ pc[Caller] = "done" /\ result[Caller].type = "patch"
    /\ calls = MaxCalls
    /\ \E r \in libraries : NameOf(r) # Line(Caller) /\ r.machineName = "A"
    /\ Line(Caller).machineName = "A"

\* ---------------------------------------------------------------------- C3
\* C3: a call that installs a strictly higher patch of an installed line and
\* succeeds returns 'patch' with oldVersion the identity installed before and
\* newVersion the manifest's; the listing of the machine name then holds the
\* new patchVersion for the line and no record of the line with the old one,
\* and no file of the line that is not in the new source remains.
C3_ListedOfLine(p) ==
    LET listing == ListInstalledLibraries(libraries, {Metadata(p).machineName})
    IN  IF Metadata(p).machineName \in DOMAIN listing
        THEN {FullNameOf(x) : x \in {y \in Range(listing[Metadata(p).machineName]) :
                                       NameOf(y) = Line(p)}}
        ELSE {}

C3_PatchReplaces ==
    \A p \in Procs :
        (pc[p] = "done" /\ Existed(p)
           /\ \E r \in Prior(p) : r.patchVersion < Metadata(p).patchVersion)
        => /\ result[p].type = "patch"
           /\ \A r \in Prior(p) : result[p].oldVersion = FullNameOf(r)
           /\ result[p].newVersion = FullNameOf(Metadata(p))
           /\ C3_ListedOfLine(p) = {FullNameOf(Metadata(p))}
           /\ files[Line(p)] \cap (before[p].files[Line(p)] \ dir[p].files) = {}

C3_Witness ==
    \E p \in Procs :
        /\ pc[p] = "done" /\ result[p].type = "patch"
        /\ before[p].files[Line(p)] \ dir[p].files # {}
        /\ files[Line(p)] # {}

\* ---------------------------------------------------------------------- C4
\* C4: a call whose manifest has a patchVersion lower than or equal to the
\* installed one of its line returns 'none' and makes no mutating store
\* operation: metadata and files of the store are what they were when the
\* call began, in every step of the call.
C4_NotAPatch(p) ==
    /\ pc[p] # "idle" /\ dir[p].readable /\ Existed(p)
    /\ \A r \in Prior(p) : r.patchVersion >= Metadata(p).patchVersion

C4_NoneTouchesNothing ==
    \A p \in Procs :
        C4_NotAPatch(p)
        => /\ log[p] = <<>>
           /\ libraries = before[p].libraries
           /\ files = before[p].files
           /\ Over(p) => pc[p] = "done" /\ result[p].type = "none"

C4_Witness ==
    \E p \in Procs :
        /\ C4_NotAPatch(p) /\ pc[p] = "done" /\ result[p].type = "none"
        /\ \E r \in Prior(p) : r.patchVersion = Metadata(p).patchVersion /\ r # Metadata(p)
        /\ files[Line(p)] # {}

\* ---------------------------------------------------------------------- C5
\* C5 as stated: a call with a readable manifest that began on an empty store
\* returns 'new' with newVersion the manifest's identity, and libraryExists
\* is true for it afterwards.
C5_Original ==
    \A p \in Procs :
        (Over(p) /\ dir[p].readable /\ before[p].libraries = {})
        => /\ result[p].type = "new"
           /\ result[p].newVersion = FullNameOf(Metadata(p))
           /\ LibraryExists(libraries, Metadata(p))

\* Every file the manifest declares is in the source directory, under a name
\* with an extension (other than the root library.json).
C5_DeclaredInSource(p) ==
    \A f \in Declared(Metadata(p)) :
        f \in dir[p].files /\ f.ext # "" /\ f.base # "" /\ f # LibraryJson

\* C5, amended: a call with a readable manifest that began on an empty store
\* takes the fresh-install path; when every file declared under preloadedJs
\* and preloadedCss is in the source directory under a name with an extension
\* it returns 'new' with newVersion the manifest's identity and libraryExists
\* is true afterwards; otherwise it throws the file-missing error and
\* libraryExists is false afterwards.
C5_EmptyStoreInstall ==
    \A p \in Procs :
        (Over(p) /\ dir[p].readable /\ before[p].libraries = {})
        => /\ PathTaken(p) = "new"
           /\ IF C5_DeclaredInSource(p)
              THEN /\ result[p].type = "new"
                   /\ result[p].newVersion = FullNameOf(Metadata(p))
                   /\ result[p].oldVersion = Undefined
                   /\ LibraryExists(libraries, Metadata(p))
              ELSE /\ result[p].type = "error"
                   /\ FileMissingThrown(p) # {}
                   /\ ~LibraryExists(libraries, Metadata(p))

C5_Witness ==
    \E p \in Procs :
        /\ pc[p] = "done" /\ before[p].libraries = {}
        /\ result[p].type = "new"
        /\ Declared(Metadata(p)) # {}
        /\ LibraryExists(libraries, Metadata(p))

\* ---------------------------------------------------------------------- C6
\* C6: when the store's clearFiles, a file copy or the consistency check of
\* a patch update fails, deleteLibrary is called and the call throws the
\* failure it caught; after the call the line is not installed, whatever
\* was installed before.
C6_FailedInUpdate(p) ==
    /\ pc[p] = "failed" /\ oldVersion[p] # Undefined
    /\ \/ err[p] \in {StoreFailure("clearFiles"), StoreFailure("addFile"),
                      StoreFailure("checkConsistency")}
       \/ err[p].type \in {"library-consistency-check-file-missing",
                           "library-consistency-check-not-installed"}

C6_FailedUpdateDeletes ==
    \A p \in Procs :
        C6_FailedInUpdate(p)
        => /\ "deleteLibrary" \in Range(log[p])
           /\ result[p] = Thrown({err[p]})
           /\ ~LibraryExists(libraries, Metadata(p))
           /\ Existed(p)

C6_Witness ==
    \E p \in Procs :
        /\ C6_FailedInUpdate(p)
        /\ err[p] = StoreFailure("addFile")
        /\ before[p].files[Line(p)] # {}
        /\ ~LibraryExists(libraries, Metadata(p))

\* ---------------------------------------------------------------------- C7
\* C7 as stated: whenever a call that has read its manifest has thrown,
\* deleteLibrary was called for the manifest's identity.
C7_Original ==
    \A p \in Procs :
        (pc[p] = "failed" /\ dir[p].readable) => "deleteLibrary" \in Range(log[p])

\* Failures thrown from outside the try blocks.
C7_Unguarded ==
    {ManifestUnreadable, StoreFailure("libraryExists"),
     StoreFailure("isPatchedLibrary"), StoreFailure("addLibrary")}

\* C7, amended: a failure of the store's updateLibrary or clearFiles, of a
\* file copy or of the consistency check makes the call call deleteLibrary
\* before it throws that failure; a failure of the manifest read, of
\* libraryExists, of the listing of isPatchedLibrary or of addLibrary is
\* thrown without deleteLibrary being called.
C7_DeleteOnGuardedFailure ==
    \A p \in Procs :
        /\ (result[p].type = "error" /\ result[p].errors \cap C7_Unguarded = {})
           => /\ err[p] # NoError
              /\ result[p].errors = {err[p]}
              /\ "deleteLibrary" \in Range(log[p])
        /\ (result[p].type = "error" /\ result[p].errors \cap C7_Unguarded # {})
           => /\ err[p] = NoError
              /\ "deleteLibrary" \notin Range(log[p])
        /\ (err[p] # NoError) => err[p] \notin C7_Unguarded

C7_Witness ==
    \E p \in Procs :
        /\ pc[p] = "failed"
        /\ result[p].errors = {StoreFailure("updateLibrary")}
        /\ "deleteLibrary" \in Range(log[p])

\* ---------------------------------------------------------------------- C8
\* C8: what a call throws after its catch block was entered carries the
\* failure that was caught, also when the deleteLibrary of the catch block
\* has failed too.
C8_OriginalNeverDropped ==
    \A p \in Procs :
        (pc[p] = "failed" /\ err[p] # NoError) => err[p] \in result[p].errors

\* ---------------------------------------------------------------------- C9
\* C9: in every state, every identity that libraryExists and
\* listInstalledLibraries show has all the files its stored manifest
\* declares.
C9_Observed ==
    LET listing == ListInstalledLibraries(libraries, {})
    IN  {r \in libraries :
            /\ LibraryExists(libraries, r)
            /\ r.machineName \in DOMAIN listing
            /\ FullNameOf(r) \in {FullNameOf(x) : x \in Range(listing[r.machineName])}}

C9_NeverHalfInstalled ==
    \A r \in C9_Observed : Declared(r) \subseteq files[NameOf(r)]

\* --------------------------------------------------------------------- C10
\* C10: in every state reached by serialized calls, successful or failed,
\* the listing of every machine name holds at most one record per
\* (majorVersion, minorVersion).
C10_Listed(machineName) ==
    LET listing == ListInstalledLibraries(libraries, {machineName})
    IN  IF machineName \in DOMAIN listing THEN listing[machineName] ELSE <<>>

C10_OneRecordPerLine ==
    \A n \in MachineNames :
        \A i, j \in 1..Len(C10_Listed(n)) :
            NameOf(C10_Listed(n)[i]) = NameOf(C10_Listed(n)[j]) => i = j

C10_Witness ==
    /\ Len(C10_Listed("A")) = 2
    /\ pc[Caller] = "failed" /\ err[Caller] # NoError
    /\ calls = MaxCalls
    /\ \E r \in libraries : r.machineName = "A" /\ r.patchVersion # 0

\* --------------------------------------------------------------------- C11
\* C11: under serialized calls, in every step of a call, every line that had
\* a record when the call began and has one now has a patchVersion greater
\* than or equal to the one it had; it differs only for the line of the call,
\* whose record is then the call's manifest, of a strictly higher
\* patchVersion.
C11_PatchNeverLowered ==
    \A p \in Procs :
        pc[p] # "idle"
        => \A r \in before[p].libraries : \A s \in libraries :
              NameOf(r) = NameOf(s)
              => /\ s.patchVersion >= r.patchVersion
                 /\ s.patchVersion # r.patchVersion
                    => /\ s = Metadata(p)
                       /\ Metadata(p).patchVersion > r.patchVersion

C11_Witness ==
    \E p \in Procs :
        /\ pc[p] = "done" /\ result[p].type = "patch"
        /\ \E r \in before[p].libraries :
              NameOf(r) = Line(p) /\ r.patchVersion < Metadata(p).patchVersion
        /\ Metadata(p) \in libraries
        /\ \E r \in before[p].libraries : NameOf(r) # Line(p) /\ r \in libraries

\* --------------------------------------------------------------------- C12
\* The declared files of the list that the store does not hold for the line.
C12_Absent(p, list) == Range(list) \ files[Line(p)]

\* C12: when the stored manifest declares files under preloadedJs and under
\* preloadedCss and some of each are absent from the store, the consistency
\* check throws one file-missing error whose list holds every absent
\* declared file of both lists.
C12_AllMissingListed ==
    \A p \in Procs :
        (/\ pc[p] = "rollback"
         /\ "checkConsistency" \in Range(log[p])
         /\ LibraryExists(libraries, Metadata(p))
         /\ C12_Absent(p, StoreGetLibrary(libraries, Metadata(p)).preloadedJs) # {}
         /\ C12_Absent(p, StoreGetLibrary(libraries, Metadata(p)).preloadedCss) # {})
        => /\ err[p].type = "library-consistency-check-file-missing"
           /\ Range(err[p].files) =
                 C12_Absent(p, StoreGetLibrary(libraries, Metadata(p)).preloadedJs)
                 \cup C12_Absent(p, StoreGetLibrary(libraries, Metadata(p)).preloadedCss)

\* --------------------------------------------------------------------- C13
\* The installed records of a machine name, over all its lines.
InstalledOf(machineName) == {r \in libraries : r.machineName = machineName}

\* a is lower than b by majorVersion, then minorVersion, then patchVersion.
Below(a, b) ==
    \/ a.majorVersion < b.majorVersion
    \/ a.majorVersion = b.majorVersion /\ a.minorVersion < b.minorVersion
    \/ /\ a.majorVersion = b.majorVersion /\ a.minorVersion = b.minorVersion
       /\ a.patchVersion < b.patchVersion

\* The highest installed records of a machine name.
HighestOf(machineName) ==
    {h \in InstalledOf(machineName) :
        \A r \in InstalledOf(machineName) : ~Below(h, r)}

\* C13 as stated: libraryHasUpgrade(candidate) is true exactly when the
\* highest installed record of the candidate's machine name, over all its
\* lines, is greater than or equal to the candidate.
C13_Original ==
    answer.op = "libraryHasUpgrade"
    => (answer.got.value
        <=> \E h \in HighestOf(answer.arg.machineName) : ~Below(h, answer.arg))

\* C13, amended: when records of the candidate's machine name are installed,
\* libraryHasUpgrade(candidate) is true exactly when the highest of them,
\* over all lines, is strictly lower than the candidate; with a higher
\* version of another line installed it is false.
C13_TrueWhenHighestBelow ==
    (answer.op = "libraryHasUpgrade" /\ InstalledOf(answer.arg.machineName) # {})
    => /\ answer.got.outcome = "returned"
       /\ answer.got.value
          <=> \E h \in HighestOf(answer.arg.machineName) : Below(h, answer.arg)

C13_Witness ==
    /\ answer.op = "libraryHasUpgrade"
    /\ answer.got.value = FALSE
    /\ \E r \in InstalledOf(answer.arg.machineName) :
          NameOf(r) = NameOf(answer.arg) /\ Below(r, answer.arg)
    /\ \E r \in InstalledOf(answer.arg.machineName) :
          NameOf(r) # NameOf(answer.arg) /\ Below(answer.arg, r)

\* --------------------------------------------------------------------- C14
\* C14: libraryHasUpgrade(library) is true when the library's version is
\* higher than every installed version of its machine name, of which there
\* is one at least, and false otherwise; it is false when no library of the
\* machine name is installed.
C14_HigherThanInstalled ==
    answer.op = "libraryHasUpgrade"
    => answer.got =
          Returned(/\ InstalledOf(answer.arg.machineName) # {}
                   /\ \A r \in InstalledOf(answer.arg.machineName) :
                         Below(r, answer.arg))

C14_Witness ==
    /\ answer.op = "libraryHasUpgrade"
    /\ answer.got.value = TRUE
    /\ \E r \in InstalledOf(answer.arg.machineName) : NameOf(r) = NameOf(answer.arg)
    /\ \E r \in InstalledOf(answer.arg.machineName) : NameOf(r) # NameOf(answer.arg)

\* --------------------------------------------------------------------- C15
\* The installed records of the line of a library.
InstalledOfLine(library) == {r \in libraries : NameOf(r) = NameOf(library)}

\* C15: isPatchedLibrary(manifest) returns the full identity of the
\* installed record of the manifest's line when that record's patchVersion is
\* strictly lower than the manifest's, and undefined when it is equal or
\* greater or when the line has no record, whatever is installed of other
\* lines.
C15_OwnLineOnly ==
    answer.op = "isPatchedLibrary"
    => /\ answer.got.outcome = "returned"
       /\ \A r \in InstalledOfLine(answer.arg) :
             r.patchVersion < answer.arg.patchVersion
             => answer.got.value = FullNameOf(r)
       /\ (\A r \in InstalledOfLine(answer.arg) :
              r.patchVersion >= answer.arg.patchVersion)
          => answer.got.value = Undefined

C15_Witness ==
    /\ answer.op = "isPatchedLibrary"
    /\ answer.got.value # Undefined
    /\ NameOf(answer.got.value) = NameOf(answer.arg)
    /\ answer.got.value.patchVersion < answer.arg.patchVersion
    /\ \E s \in InstalledOf(answer.arg.machineName) :
          NameOf(s) # NameOf(answer.arg) /\ s.patchVersion >= answer.arg.patchVersion

\* --------------------------------------------------------------------- C16
\* The installed records a listInstalledLibraries filter selects: all of
\* them when no machine name is given.
C16_Matching(machineNames) ==
    {r \in libraries : machineNames = {} \/ r.machineName \in machineNames}

\* C16: listInstalledLibraries returns a mapping whose keys are the machine
\* names of the installed records the filter selects; every such record
\* appears exactly once, under its machine name, with the patchVersion,
\* runnable and title stored for it, nothing else appears, and the sequence
\* of each machine name ascends by (majorVersion, minorVersion,
\* patchVersion).
C16_ListedOnceSorted ==
    answer.op = "listInstalledLibraries"
    => LET listing == answer.got.value
           matching == C16_Matching(answer.arg)
       IN  /\ answer.got.outcome = "returned"
           /\ DOMAIN listing = {r.machineName : r \in matching}
           /\ \A r \in matching :
                 Cardinality({i \in 1..Len(listing[r.machineName]) :
                                 listing[r.machineName][i] = InstalledLib(r)}) = 1
           /\ \A k \in DOMAIN listing : \A i \in 1..Len(listing[k]) :
                 /\ listing[k][i].machineName = k
                 /\ \E r \in matching :
                       /\ FullNameOf(r) = FullNameOf(listing[k][i])
                       /\ r.runnable = listing[k][i].runnable
                       /\ r.title = listing[k][i].title
           /\ \A k \in DOMAIN listing : \A i, j \in 1..Len(listing[k]) :
                 i < j => Below(listing[k][i], listing[k][j])
           /\ \A k \in DOMAIN listing : Len(listing[k]) = Cardinality(InstalledOf(k))

C16_Witness ==
    /\ answer.op = "listInstalledLibraries"
    /\ answer.arg = {"A"}
    /\ DOMAIN answer.got.value = {"A"}
    /\ Len(answer.got.value["A"]) = 2
    /\ answer.got.value["A"][1].patchVersion > answer.got.value["A"][2].patchVersion
    /\ InstalledOf("B") # {}

\* --------------------------------------------------------------------- C17
\* C17: when a fresh install or a patch update has succeeded, the files of
\* the line in the store are the files of the source directory, whatever
\* their names, without the root library.json.
C17_AllSourceFilesCopied ==
    \A p \in Procs :
        (pc[p] = "done" /\ result[p].type \in {"new", "patch"})
        => files[Line(p)] = dir[p].files \ {LibraryJson}

\* --------------------------------------------------------------------- C18
\* The line has the one record r in the store.
C18_SlotIs(libs, r) == {x \in libs : NameOf(x) = NameOf(r)} = {r}

\* C18: without serialization the patchVersion of a line can decrease (the
\* witness), and it decreases in one way only: by the updateLibrary of a call
\* whose read of the installed patch is out of date, the call having read a
\* patchVersion lower than its own before another call stored a higher one.
C18_LoweredOnlyByStaleWrite ==
    [][\A r \in libraries : \A s \in libraries' :
          (/\ C18_SlotIs(libraries, r) /\ C18_SlotIs(libraries', s)
           /\ NameOf(r) = NameOf(s)
           /\ s.patchVersion < r.patchVersion)
          => \E p \in Procs :
                /\ pc[p] = "updateLibrary" /\ pc'[p] = "clearFiles"
                /\ s = Metadata(p)
                /\ oldVersion[p] # Undefined
                /\ oldVersion[p].patchVersion < s.patchVersion
                /\ oldVersion[p].patchVersion < r.patchVersion]_vars

\* Two calls for one line have both read the same installed patch, the call
\* with the higher patch has stored it and returned 'patch', and the call
\* with the lower patch has stored its own after that and returned 'patch'.
C18_Witness ==
    \E p, q \in Procs :
        /\ p # q /\ Line(p) = Line(q)
        /\ pc[p] = "done" /\ result[p].type = "patch"
        /\ pc[q] = "done" /\ result[q].type = "patch"
        /\ oldVersion[p] # Undefined /\ oldVersion[p] = oldVersion[q]
        /\ Metadata(p).patchVersion < Metadata(q).patchVersion
        /\ C18_SlotIs(libraries, Metadata(p))

\* --------------------------------------------------------------------- C19
\* The texts that are JSON.
C19_WellFormed == { <<"{", "}">>, <<"[", "]">>, <<"[", "{", "}", "]">> }

\* C19: getLanguage returns null when the language file is missing, and
\* getSemantics and getLanguage both fail when the file is there and its
\* content is malformed: with a decode error, not with the parse exception
\* and not with the null of a file not found.
C19_NullOrDecodeError ==
    /\ (answer.op = "getLanguage" /\ ~answer.arg.store.found)
       => answer.got = Returned(JsonNull)
    /\ (/\ answer.op \in {"getLanguage", "getSemantics"}
        /\ answer.arg.store.found
        /\ answer.arg.store.text \notin C19_WellFormed)
       => /\ answer.got.outcome = "rejected"
          /\ answer.got.value.type # "SyntaxError"

\* --------------------------------------------------------------------- C20
\* C20: whatever the store's getLanguages comes to (a list with 'en', one
\* without, an empty one, a rejection), what listLanguages returns holds
\* 'en'.
C20_AlwaysEn ==
    answer.op = "listLanguages"
    => /\ answer.got.outcome = "returned"
       /\ "en" \in Range(answer.got.value)

\* --------------------------------------------------------------------- C21
\* C21: getLibrary never fails: when the store's getLibrary fails, by the
\* rejection of its promise, for a library that is not installed, getLibrary
\* returns undefined.
C21_NeverPropagates ==
    answer.op = "getLibrary"
    => /\ answer.got.outcome = "returned"
       /\ ~StoreLibraryExists(libraries, answer.arg.library)
          => answer.got.value = Undefined

\* --------------------------------------------------------------------- C22
\* C22: a call on a directory whose library.json is missing or does not
\* parse throws the manifest failure without having made a store operation:
\* metadata and files of the store are what they were when the call began.
C22_UnreadableTouchesNothing ==
    \A p \in Procs :
        (pc[p] # "idle" /\ ~dir[p].readable)
        => /\ pc[p] = "failed"
           /\ result[p] = Thrown({ManifestUnreadable})
           /\ log[p] = <<>>
           /\ libraries = before[p].libraries
           /\ files = before[p].files

C22_Witness ==
    \E p \in Procs :
        /\ pc[p] = "failed" /\ dir[p] = BrokenDir
        /\ libraries # {}
        /\ \E l \in Lines : files[l] # {}

\* --------------------------------------------------------------------- C25
\* The places of a store operation in the call's history.
PlacesOf(p, op) == {i \in 1..Len(log[p]) : log[p][i] = op}

\* C25: in every patch update the store's updateLibrary comes first and
\* clearFiles second; no addFile is in flight or has completed before
\* clearFiles has; the consistency check begins when every addFile of the
\* copy has completed, none being in flight, and none completes after it.
C25_UpdateOrder ==
    \A p \in Procs :
        PathTaken(p) = "patch"
        => /\ PlacesOf(p, "updateLibrary") = {1}
           /\ PlacesOf(p, "clearFiles") \subseteq {2}
           /\ PlacesOf(p, "addLibrary") = {}
           /\ (pending[p] # {} \/ PlacesOf(p, "addFile") # {})
              => PlacesOf(p, "clearFiles") = {2}
           /\ \A i \in PlacesOf(p, "checkConsistency") :
                 /\ pending[p] = {}
                 /\ \A j \in PlacesOf(p, "addFile") : 2 < j /\ j < i
                 /\ Cardinality(PlacesOf(p, "addFile"))
                       = Cardinality(dir[p].files \ {LibraryJson, License})

C25_Witness ==
    \E p \in Procs :
        /\ pc[p] = "done" /\ result[p].type = "patch"
        /\ log[p] = <<"updateLibrary", "clearFiles", "addFile", "addFile",
                      "checkConsistency">>

\* --------------------------------------------------------------------- C26
\* The failures of a file copy or of the consistency check.
C26_CopyOrCheckFailed(e) ==
    \/ e \in {StoreFailure("addFile"), StoreFailure("checkConsistency")}
    \/ e.type \in {"library-consistency-check-file-missing",
                   "library-consistency-check-not-installed"}

\* C26: in every fresh install addLibrary comes first and has succeeded
\* before an addFile is in flight; the consistency check begins when every
\* addFile of the copy has completed, none being in flight; and deleteLibrary
\* is called exactly when a file copy or the consistency check has failed,
\* never by an install that returns.
C26_InstallOrder ==
    \A p \in Procs :
        PathTaken(p) = "new"
        => /\ PlacesOf(p, "addLibrary") = {1}
           /\ PlacesOf(p, "updateLibrary") \cup PlacesOf(p, "clearFiles") = {}
           /\ (pending[p] # {} \/ PlacesOf(p, "addFile") # {})
              => /\ StoreFailure("addLibrary") \notin result[p].errors
                 /\ LibraryExists(libraries, Metadata(p)) \/ pc[p] = "failed"
           /\ \A i \in PlacesOf(p, "checkConsistency") :
                 /\ pending[p] = {}
                 /\ \A j \in PlacesOf(p, "addFile") : 1 < j /\ j < i
                 /\ Cardinality(PlacesOf(p, "addFile"))
                       = Cardinality(dir[p].files \ {LibraryJson, License})
           /\ PlacesOf(p, "deleteLibrary") # {}
              <=> (pc[p] = "failed" /\ C26_CopyOrCheckFailed(err[p]))
           /\ pc[p] = "failed"
              => \/ C26_CopyOrCheckFailed(err[p])
                 \/ result[p] = Thrown({StoreFailure("addLibrary")})
           /\ pc[p] = "done" => PlacesOf(p, "deleteLibrary") = {}

C26_Witness ==
    \E p \in Procs :
        /\ pc[p] = "failed" /\ PathTaken(p) = "new"
        /\ err[p] = StoreFailure("addFile")
        /\ log[p] = <<"addLibrary", "addFile", "addFile", "deleteLibrary">>

\* --------------------------------------------------------------------- C27
\* C27: when the store's updateLibrary fails at the start of a patch update,
\* clearFiles not having run and the installed record being as it was, the
\* call calls deleteLibrary and throws that failure: the line that was
\* installed is not installed afterwards.
C27_FailedMetadataWriteDeletes ==
    \A p \in Procs :
        /\ (pc[p] = "rollback" /\ err[p] = StoreFailure("updateLibrary"))
           => /\ libraries = before[p].libraries
              /\ before[p].files[Line(p)] \subseteq files[Line(p)]
        /\ (pc[p] = "failed" /\ StoreFailure("updateLibrary") \in result[p].errors)
           => /\ result[p] = Thrown({StoreFailure("updateLibrary")})
              /\ log[p] = <<"updateLibrary", "deleteLibrary">>
              /\ Existed(p)
              /\ ~LibraryExists(libraries, Metadata(p))

C27_Witness ==
    \E p \in Procs :
        /\ pc[p] = "failed"
        /\ result[p] = Thrown({StoreFailure("updateLibrary")})
        /\ before[p].files[Line(p)] # {}
        /\ files[Line(p)] = {}
        /\ \E r \in Prior(p) : r.patchVersion < Metadata(p).patchVersion
        /\ ~LibraryExists(libraries, Metadata(p))

\* --------------------------------------------------------------------- C28
\* The failure the caller has kept is that of a patch update that was rolled
\* back, and the call p is the next the caller has made, for the same line.
C28_RetryOf(p) ==
    /\ answer.op = "installFromDirectory"
    /\ answer.arg.oldVersion # Undefined
    /\ "deleteLibrary" \in Range(answer.arg.log)
    /\ pc[p] # "idle"
    /\ calls = answer.arg.call + 1
    /\ dir[p].readable
    /\ Line(p) = answer.arg.library

\* C28: the next serialized call for the line of a patch update that failed
\* and was rolled back finds the line not installed, whatever its
\* patchVersion; it takes the fresh-install path, returns neither 'patch' nor
\* 'none', and from a source that holds every file its manifest declares it
\* returns 'new', the line being installed afterwards.
C28_RetryIsFreshInstall ==
    \A p \in Procs :
        C28_RetryOf(p)
        => /\ ~Existed(p)
           /\ oldVersion[p] = Undefined
           /\ result[p].type \notin {"patch", "none"}
           /\ Over(p) => PathTaken(p) = "new"
           /\ (Over(p) /\ C5_DeclaredInSource(p))
              => /\ pc[p] = "done"
                 /\ result[p] = Installed("new", FullNameOf(Metadata(p)), Undefined)
                 /\ LibraryExists(libraries, Metadata(p))

C28_Witness ==
    \E p \in Procs :
        /\ C28_RetryOf(p)
        /\ pc[p] = "done" /\ result[p].type = "new"
        /\ Metadata(p).patchVersion <= answer.arg.oldVersion.patchVersion
        /\ answer.got.value = {StoreFailure("clearFiles")}

\* --------------------------------------------------------------------- C29
\* The call p failed on a rejected addFile, its catch block has completed
\* deleteLibrary, and no addFile for its line is in flight any more.
C29_FailedAndSettled(p) ==
    /\ pc[p] = "failed"
    /\ err[p] = StoreFailure("addFile")
    /\ "deleteLibrary" \in Range(log[p])
    /\ pending[p] = {}
    /\ \A o \in inflight : o.library # Line(p)

\* An addFile of the call p completed after its deleteLibrary.
C29_AddFileAfterDelete(p) ==
    \E i, j \in 1..Len(log[p]) :
        i < j /\ log[p][i] = "deleteLibrary" /\ log[p][j] = "addFile"

\* C29: when one of the parallel addFile calls of an install or patch update
\* rejects, no addFile of the call completes after the catch block's
\* deleteLibrary: once the call has failed and nothing is in flight, the line
\* is not installed and the store holds no file of it.
C29_NoFileAfterRollback ==
    \A p \in Procs :
        C29_FailedAndSettled(p)
        => /\ ~C29_AddFileAfterDelete(p)
           /\ ~LibraryExists(libraries, Metadata(p))
           /\ files[Line(p)] = {}

\* --------------------------------------------------------------------- C30
\* The records and the files of the line l are what they were when the call
\* p began.
C30_SlotAsBefore(p, l) ==
    /\ {r \in libraries : NameOf(r) = l} = {r \in before[p].libraries : NameOf(r) = l}
    /\ files[l] = before[p].files[l]

\* The call p installs a line that was not installed when it began, of a
\* machine name that had another line installed.
C30_NewLineOfInstalledName(p) ==
    /\ pc[p] # "idle"
    /\ dir[p].readable
    /\ Prior(p) = {}
    /\ \E r \in before[p].libraries :
          r.machineName = Metadata(p).machineName /\ NameOf(r) # Line(p)

\* C30: a call for one line, whatever its outcome, leaves the metadata and the
\* files of every other line as they were, lines of the same machine name
\* included; a manifest of a line that is not installed, of a machine name
\* that has another line installed, takes the fresh-install path and, from a
\* source that holds its declared files, returns 'new'.
C30_OtherSlotsUntouched ==
    \A p \in Procs :
        /\ pc[p] # "idle"
           => \A l \in Lines \ {Line(p)} : C30_SlotAsBefore(p, l)
        /\ C30_NewLineOfInstalledName(p)
           => /\ result[p].type \notin {"patch", "none"}
              /\ Over(p) => PathTaken(p) = "new"
              /\ (Over(p) /\ C5_DeclaredInSource(p))
                 => /\ result[p] = Installed("new", FullNameOf(Metadata(p)), Undefined)
                    /\ InstalledOfLine(Metadata(p)) = {Metadata(p)}

C30_Witness ==
    \E p \in Procs :
        /\ C30_NewLineOfInstalledName(p)
        /\ pc[p] = "done" /\ result[p].type = "new"
        /\ \E l \in Lines \ {Line(p)} :
              /\ l.machineName = Metadata(p).machineName
              /\ files[l] # {}
              /\ \E r \in libraries : NameOf(r) = l

====
